---- MODULE Spec2Model ----
(***************************************************************************)
(* Model of convert_captions.py: the conversion of a CapCut draft_info.json *)
(* document into SRT subtitles.                                             *)
(*                                                                          *)
(* Python values (the result of json.load) are tagged records:              *)
(*   None            [t |-> "null"]                                         *)
(*   int             [t |-> "num",  n |-> 5]                                *)
(*   str             [t |-> "str",  s |-> <<"a", "b">>]  (its characters)   *)
(*   str             [t |-> "jstr", v |-> value]  a str whose characters    *)
(*                   are the JSON encoding of value                         *)
(*   list            [t |-> "list", items |-> <<...>>]                      *)
(*   dict            [t |-> "dict", kvs |-> <<[k |-> key, v |-> value]>>]   *)
(*                   in insertion order, keys distinct                      *)
(* A Python str that is program text (a rendered time, the SRT content) is  *)
(* the bare sequence of its characters.                                     *)
(***************************************************************************)
EXTENDS Integers, Sequences, FiniteSets, TLC

VARIABLES
    pc,                  \* position of the run
    arg,                 \* SpecLocator/SpecExtractor/SpecTime: the function's argument
    result,              \* SpecLocator/SpecExtractor/SpecTime: what the function returned
    inputKind,           \* the input file: "missing", "unreadable", "malformed", "ok"
    data,                \* the document json.load yields when the file is "ok"
    subtitle_fragments,  \* convert_draft_info_to_srt: the located value
    subtitles_with_text, \* convert_draft_info_to_srt: the extracted captions
    srt_content,         \* convert_draft_info_to_srt: the rendered text
    exc,                 \* the exception in flight inside the try block, or "none"
    idx,                 \* the for loop of lines 129-137: the next fragment's index
    fileContent,         \* the output file's content (<<>> while unwritten)
    writes,              \* how many times the output file was written
    printed,             \* the messages printed so far
    ret,                 \* what convert_draft_info_to_srt returned to main
    copies,              \* how many times pyperclip.copy was called
    clipboard            \* what the clipboard holds

vars == <<pc, arg, result, inputKind, data, subtitle_fragments, idx,
          subtitles_with_text, srt_content, exc, fileContent, writes,
          printed, ret, copies, clipboard>>

\* ------------------------------------------------------------ Python values

None == [t |-> "null"]
Num(n) == [t |-> "num", n |-> n]
Str(s) == [t |-> "str", s |-> s]
JsonStr(v) == [t |-> "jstr", v |-> v]
List(items) == [t |-> "list", items |-> items]
Dict(kvs) == [t |-> "dict", kvs |-> kvs]
KV(k, v) == [k |-> k, v |-> v]

\* isinstance(obj, dict), isinstance(obj, list)
IsDict(obj) == obj.t = "dict"
IsList(obj) == obj.t = "list"
IsStr(obj) == obj.t \in {"str", "jstr"}

\* bool(obj): None, 0, "", [] and {} are false
Truthy(obj) ==
    CASE obj.t = "null" -> FALSE
      [] obj.t = "num" -> obj.n # 0
      [] obj.t = "str" -> obj.s # <<>>
      [] obj.t = "jstr" -> TRUE
      [] obj.t = "list" -> obj.items # <<>>
      [] obj.t = "dict" -> obj.kvs # <<>>

\* key in d, d[key] and d.values() of a dict d
HasKey(d, key) == \E i \in DOMAIN d.kvs : d.kvs[i].k = key
Get(d, key) == d.kvs[CHOOSE i \in DOMAIN d.kvs : d.kvs[i].k = key].v
Values(d) == [i \in DOMAIN d.kvs |-> d.kvs[i].v]

\* ------------------------------------------------------------ exceptions

\* The outcome of an expression: its value, or the exception it raised.
Ok(v) == [exc |-> "none", val |-> v]
Raise(e) == [exc |-> e, val |-> None]

\* The characters of the str values of the model; no key name of the program
\* is written with these alone, so no such str equals or contains a key name.
Alphabet == {"a", "b", " "}

\* Whether the JSON encoding of v contains the text of key: key is the name of
\* a key somewhere in v (the str values hold Alphabet characters only).
RECURSIVE Mentions(_, _)
Mentions(v, key) ==
    CASE v.t = "dict" ->
            \E i \in DOMAIN v.kvs : v.kvs[i].k = key \/ Mentions(v.kvs[i].v, key)
      [] v.t = "list" -> \E i \in DOMAIN v.items : Mentions(v.items[i], key)
      [] v.t = "jstr" -> Mentions(v.v, key)
      [] OTHER -> FALSE

\* key in obj, for a key name of the program: membership in a dict's keys,
\* equality with an element of a list, substring of a str, TypeError otherwise.
Contains(obj, key) ==
    CASE obj.t = "dict" -> Ok(HasKey(obj, key))
      [] obj.t = "list" -> Ok(FALSE)
      [] obj.t = "str" -> Ok(FALSE)
      [] obj.t = "jstr" -> Ok(Mentions(obj.v, key))
      [] OTHER -> Raise("TypeError")

\* obj[key], for a key name of the program
Subscript(obj, key) ==
    CASE obj.t = "dict" -> IF HasKey(obj, key) THEN Ok(Get(obj, key)) ELSE Raise("KeyError")
      [] OTHER -> Raise("TypeError")

\* ------------------------------------------------------------ the Time Normalizer

(***************************************************************************)
(* time_seconds = time_microseconds / 1000000 is a float: the IEEE-754      *)
(* binary64 number nearest to the quotient. For 1 <= t < 2^31 and e with    *)
(* 2^e <= t/10^6 < 2^(e+1) it is M / 2^p with p = 52 - e and M the integer  *)
(* nearest to t * 2^p / 10^6 = t * 2^(p-6) / 5^6 (never a tie, 5^6 being    *)
(* odd). With R = (t * 2^(p-6)) mod 5^6 the float is                        *)
(*        t / 10^6  -  err / (5^6 * 2^p),                                   *)
(* err = R when R <= 7812 (rounded down), err = R - 5^6 otherwise (rounded  *)
(* up). A float is the record [whole, micro, shift, err] standing for       *)
(*        whole + micro / 10^6 - err / (5^6 * 2^shift).                     *)
(* |err / (5^6 * 2^shift)| < 2^-42, so floor(float) = whole, and  float % n *)
(* (exact in binary64 for a positive float) keeps micro, shift and err.     *)
(***************************************************************************)
RECURSIVE ExponentUp(_, _), ExponentDown(_, _), Pow2Mod(_), Log2(_)
ExponentUp(t, e) == IF t \div 2^(e + 1) >= 1000000 THEN ExponentUp(t, e + 1) ELSE e
ExponentDown(t, k) == IF t * 2^k < 1000000 THEN ExponentDown(t, k + 1) ELSE 0 - k
\* e with 2^e <= t / 10^6 < 2^(e+1), for t >= 1
BinaryExponent(t) == IF t >= 1000000 THEN ExponentUp(t, 0) ELSE ExponentDown(t, 1)
\* 2^n mod 5^6
Pow2Mod(n) == IF n = 0 THEN 1 ELSE (2 * Pow2Mod(n - 1)) % 15625
\* j with 2^j <= k < 2^(j+1), for k >= 1
Log2(k) == IF k < 2 THEN 0 ELSE 1 + Log2(k \div 2)

\* time_microseconds / 1000000, with exact real arithmetic (no rounding)
ExactDivMillion(t) ==
    [whole |-> t \div 1000000, micro |-> t % 1000000, shift |-> 0, err |-> 0]
\* time_microseconds / 1000000
FloatDivMillion(t) ==
    IF t = 0 THEN [whole |-> 0, micro |-> 0, shift |-> 0, err |-> 0]
    ELSE LET p == 52 - BinaryExponent(t)
             R == ((t % 15625) * Pow2Mod(p - 6)) % 15625
         IN [whole |-> t \div 1000000, micro |-> t % 1000000, shift |-> p,
             err |-> IF R <= 7812 THEN R ELSE R - 15625]

\* int(x // n) and x % n of a float x >= 0 and a positive int n
IntFloorDiv(x, n) == x.whole \div n
FloatMod(x, n) == [x EXCEPT !.whole = x.whole % n]
\* int(x)
IntOf(x) == x.whole

(***************************************************************************)
(* int(x * 1000) for a float 0 <= x < 1 (x = time_seconds % 1): the product *)
(* is rounded to the nearest binary64, ties to even, then truncated. With   *)
(* micro = 1000 * k + s the exact product is                                *)
(*        k + s / 1000 - eps,   eps = 8 * err / (125 * 2^shift).            *)
(* For s >= 1, or err <= 0, it lies in [k, k + 1) away from k + 1 by more   *)
(* than the rounding step, and truncates to k. For s = 0 and err > 0 it is  *)
(* below k, and rounds to k only when eps is at most half the spacing of    *)
(* the floats below k, 2^-c with c = 53 - Log2(k) (54 - Log2(k) when k is a *)
(* power of two): otherwise the result is k - 1.                            *)
(***************************************************************************)
IntOfTimes1000(x) ==
    LET k == x.micro \div 1000
        s == x.micro % 1000
    IN
    IF s >= 1 \/ x.err <= 0 THEN k
    ELSE LET j == Log2(k)
             c == IF k = 2^j THEN 54 - j ELSE 53 - j
             d == x.shift - c - 3
             \* eps <= 2^-c, that is err * 2^(c+3) <= 125 * 2^shift
             reaches == IF d >= 0 THEN (d >= 7 \/ x.err <= 125 * 2^d)
                        ELSE (0 - d < 8 /\ x.err * 2^(0 - d) <= 125)
         IN IF reaches THEN k ELSE k - 1

\* The decimal digits of n >= 0, and f"{n:0<width>d}"
DigitChars == <<"0", "1", "2", "3", "4", "5", "6", "7", "8", "9">>
RECURSIVE Decimal(_), ZeroPad(_, _)
Decimal(n) ==
    IF n < 10 THEN <<DigitChars[n + 1]>> ELSE Decimal(n \div 10) \o <<DigitChars[(n % 10) + 1]>>
ZeroPad(digits, width) ==
    IF Len(digits) >= width THEN digits ELSE ZeroPad(<<"0">> \o digits, width)
Format(n, width) == ZeroPad(Decimal(n), width)

\* parse_time_microseconds(time_microseconds), for an int >= 0
parse_time_microseconds(time_microseconds) ==
    LET time_seconds == FloatDivMillion(time_microseconds)
        hours == IntFloorDiv(time_seconds, 3600)
        minutes == IntFloorDiv(FloatMod(time_seconds, 3600), 60)
        seconds == IntOf(FloatMod(time_seconds, 60))
        milliseconds == IntOfTimes1000(FloatMod(time_seconds, 1))
    IN Format(hours, 2) \o <<":">> \o Format(minutes, 2) \o <<":">>
           \o Format(seconds, 2) \o <<",">> \o Format(milliseconds, 3)

\* ------------------------------------------------------------ the Fragment Extractor

\* json.loads(s): a str that is a JSON encoding decodes to its value, any other
\* str of the model (Alphabet characters only) is no JSON document, and an
\* argument that is no str is a TypeError.
json_loads(s) ==
    CASE s.t = "jstr" -> Ok(s.v)
      [] s.t = "str" -> Raise("JSONDecodeError")
      [] OTHER -> Raise("TypeError")

\* " ".join(sentences): TypeError unless every item is a str of characters.
RECURSIVE JoinChars(_)
JoinChars(sentences) ==
    IF Len(sentences) = 1 THEN sentences[1].s
    ELSE sentences[1].s \o <<" ">> \o JoinChars(Tail(sentences))
JoinNoSeparator(sentences) ==
    IF \E i \in DOMAIN sentences : sentences[i].t # "str" THEN Raise("TypeError")
    ELSE IF sentences = <<>> THEN Ok(<<>>)
    ELSE Ok(SelectSeq(JoinChars(sentences), LAMBDA c : c # " "))
Join(sentences) ==
    IF \E i \in DOMAIN sentences : sentences[i].t # "str" THEN Raise("TypeError")
    ELSE IF sentences = <<>> THEN Ok(<<>>)
    ELSE Ok(JoinChars(sentences))

\* The for loop of lines 75-77 over a list's items: the sentences collected,
\* or the TypeError of the first step that raises.
RECURSIVE CollectSentences(_)
CollectSentences(items) ==
    IF items = <<>> THEN Ok(<<>>)
    ELSE LET sentence == Head(items)
             has == Contains(sentence, "text")
         IN
         IF has.exc # "none" THEN Raise(has.exc)
         ELSE LET text == IF has.val THEN Subscript(sentence, "text") ELSE Ok(None)
              IN
              IF text.exc # "none" THEN Raise(text.exc)
              ELSE LET rest == CollectSentences(Tail(items)) IN
                   IF rest.exc # "none" THEN rest
                   ELSE Ok((IF has.val THEN <<text.val>> ELSE <<>>) \o rest.val)

\* for sentence in cache_data["sentence_list"]: a list yields its items, a
\* number is not iterable.
Iterate(obj) ==
    CASE obj.t = "list" -> Ok(obj.items)
      [] obj.t = "str" -> Ok([i \in DOMAIN obj.s |-> Str(<<obj.s[i]>>)])
      [] obj.t \in {"num", "null"} -> Raise("TypeError")

\* The try block of extract_subtitle_text: the text, or the exception raised.
ExtractTry(subtitle_cache_info) ==
    LET loaded == json_loads(subtitle_cache_info) IN
    IF loaded.exc # "none" THEN Raise(loaded.exc)
    ELSE LET cache_data == loaded.val
             has == Contains(cache_data, "sentence_list")
         IN
         IF has.exc # "none" THEN Raise(has.exc)
         ELSE IF ~has.val THEN Ok(<<>>)
         ELSE LET sentence_list == Subscript(cache_data, "sentence_list") IN
              IF sentence_list.exc # "none" THEN Raise(sentence_list.exc)
              ELSE IF ~Truthy(sentence_list.val) THEN Ok(<<>>)
              ELSE LET items == Iterate(sentence_list.val) IN
                   IF items.exc # "none" THEN Raise(items.exc)
                   ELSE LET sentences == CollectSentences(items.val) IN
                        IF sentences.exc # "none" THEN Raise(sentences.exc)
                        ELSE Join(sentences.val)

\* extract_subtitle_text(subtitle_cache_info): the characters of the text; the
\* except clause turns JSONDecodeError, KeyError and TypeError into "".
extract_subtitle_text(subtitle_cache_info) ==
    IF ~Truthy(subtitle_cache_info) THEN Ok(<<>>)
    ELSE LET r == ExtractTry(subtitle_cache_info) IN
         IF r.exc \in {"JSONDecodeError", "KeyError", "TypeError"} THEN Ok(<<>>)
         ELSE r

\* ------------------------------------------------------------ the Locator

Target == "subtitle_fragment_info_list"

\* find_subtitle_fragments(obj), with the calls it makes: [res, visited],
\* visited being the objects the function was called on, in call order.
\* FindIn is the for loop over obj.values() or over the list's items.
RECURSIVE find_subtitle_fragments(_), FindIn(_)
FindInReversed(seq) ==
    IF seq = <<>> THEN [res |-> None, visited |-> <<>>]
    ELSE LET r == find_subtitle_fragments(seq[Len(seq)]) IN
         IF r.res # None THEN r
         ELSE LET rest == FindIn(SubSeq(seq, 1, Len(seq) - 1)) IN
              [res |-> rest.res, visited |-> r.visited \o rest.visited]
FindIn(seq) ==
    IF seq = <<>> THEN [res |-> None, visited |-> <<>>]
    ELSE LET r == find_subtitle_fragments(Head(seq)) IN
         IF r.res # None THEN r
         ELSE LET rest == FindIn(Tail(seq)) IN
              [res |-> rest.res, visited |-> r.visited \o rest.visited]
find_subtitle_fragments(obj) ==
    IF IsDict(obj) THEN
        IF HasKey(obj, Target) THEN [res |-> Get(obj, Target), visited |-> <<obj>>]
        ELSE LET r == FindIn(Values(obj)) IN
             [res |-> r.res, visited |-> <<obj>> \o r.visited]
    ELSE IF IsList(obj) THEN
        LET r == FindIn(obj.items) IN [res |-> r.res, visited |-> <<obj>> \o r.visited]
    ELSE [res |-> None, visited |-> <<obj>>]

\* ------------------------------------------------------------ filtering, ordering, serializing

\* text.strip(): the text without its leading and trailing whitespace
IsSpace(c) == c \in {" ", "\n"}
RECURSIVE StripLeft(_), StripRight(_)
StripLeft(cs) == IF cs # <<>> /\ IsSpace(Head(cs)) THEN StripLeft(Tail(cs)) ELSE cs
StripRight(cs) ==
    IF cs # <<>> /\ IsSpace(cs[Len(cs)]) THEN StripRight(SubSeq(cs, 1, Len(cs) - 1)) ELSE cs
Strip(cs) == StripRight(StripLeft(cs))

\* The body of the for loop of lines 129-137 for one fragment: the captions it
\* appends (none or one), or the exception it raises.
FilterFragmentNoStrip(fragment) ==
    LET has == Contains(fragment, "subtitle_cache_info") IN
    IF has.exc # "none" THEN Raise(has.exc)
    ELSE IF ~has.val THEN Ok(<<>>)
    ELSE LET cache == Subscript(fragment, "subtitle_cache_info") IN
         IF cache.exc # "none" THEN Raise(cache.exc)
         ELSE IF ~Truthy(cache.val) THEN Ok(<<>>)
         ELSE LET text == extract_subtitle_text(cache.val)
                  start_time == Subscript(fragment, "start_time")
                  end_time == Subscript(fragment, "end_time")
              IN
              IF text.exc # "none" THEN Raise(text.exc)
              ELSE IF start_time.exc # "none" THEN Raise(start_time.exc)
              ELSE IF end_time.exc # "none" THEN Raise(end_time.exc)
              ELSE Ok(<<[start_time |-> start_time.val,
                         end_time |-> end_time.val, text |-> text.val]>>)
FilterFragment(fragment) ==
    LET has == Contains(fragment, "subtitle_cache_info") IN
    IF has.exc # "none" THEN Raise(has.exc)
    ELSE IF ~has.val THEN Ok(<<>>)
    ELSE LET cache == Subscript(fragment, "subtitle_cache_info") IN
         IF cache.exc # "none" THEN Raise(cache.exc)
         ELSE IF ~Truthy(cache.val) THEN Ok(<<>>)
         ELSE LET text == extract_subtitle_text(cache.val) IN
              IF text.exc # "none" THEN Raise(text.exc)
              ELSE IF Strip(text.val) = <<>> THEN Ok(<<>>)
              ELSE LET start_time == Subscript(fragment, "start_time")
                       end_time == Subscript(fragment, "end_time")
                   IN
                   IF start_time.exc # "none" THEN Raise(start_time.exc)
                   ELSE IF end_time.exc # "none" THEN Raise(end_time.exc)
                   ELSE Ok(<<[start_time |-> start_time.val,
                              end_time |-> end_time.val, text |-> text.val]>>)

\* subtitles_with_text.sort(key=lambda x: x["start_time"]): a stable sort.
\* Comparing two keys raises TypeError unless both are numbers, and a list of
\* two or more items has every key compared at least once.
RECURSIVE InsertByStart(_, _), SortedByStart(_)
InsertBeforeEqual(sorted, x) ==
    IF sorted = <<>> THEN <<x>>
    ELSE IF Head(sorted).start_time.n < x.start_time.n
         THEN <<Head(sorted)>> \o InsertByStart(Tail(sorted), x)
         ELSE <<x>> \o sorted
InsertByStart(sorted, x) ==
    IF sorted = <<>> THEN <<x>>
    ELSE IF Head(sorted).start_time.n <= x.start_time.n
         THEN <<Head(sorted)>> \o InsertByStart(Tail(sorted), x)
         ELSE <<x>> \o sorted
SortedByStart(subs) ==
    IF subs = <<>> THEN <<>>
    ELSE InsertByStart(SortedByStart(SubSeq(subs, 1, Len(subs) - 1)), subs[Len(subs)])
Sort(subs) ==
    IF Len(subs) >= 2 /\ \E i \in DOMAIN subs : subs[i].start_time.t # "num"
    THEN Raise("TypeError")
    ELSE Ok(SortedByStart(subs))

\* parse_time_microseconds applied to a value of the document: dividing
\* anything but a number by 1000000 is a TypeError.
TimeOf(v) ==
    IF v.t = "num" THEN Ok(parse_time_microseconds(v.n)) ELSE Raise("TypeError")

\* The three += of lines 149-151 for the i-th subtitle
BlockFromZero(i, start_time, end_time, text) ==
    Decimal(i - 1) \o <<"\n">>
        \o start_time \o <<" ", "-", "-", ">", " ">> \o end_time \o <<"\n">>
        \o text \o <<"\n", "\n">>
Block(i, start_time, end_time, text) ==
    Decimal(i) \o <<"\n">>
        \o start_time \o <<" ", "-", "-", ">", " ">> \o end_time \o <<"\n">>
        \o text \o <<"\n", "\n">>

\* The for loop of lines 143-151 from the i-th subtitle on, appending to
\* content: the text, or the exception raised.
RECURSIVE SerializeFrom(_, _, _)
SerializeFrom(subs, i, content) ==
    IF i > Len(subs) THEN Ok(content)
    ELSE LET start_time == TimeOf(subs[i].start_time)
             end_time == TimeOf(subs[i].end_time)
         IN
         IF start_time.exc # "none" THEN Raise(start_time.exc)
         ELSE IF end_time.exc # "none" THEN Raise(end_time.exc)
         ELSE SerializeFrom(subs, i + 1,
                  content \o Block(i, start_time.val, end_time.val, subs[i].text))
Serialize(subs) == SerializeFrom(subs, 1, <<>>)

\* The except clause of lines 162-170 that catches an exception raised in the
\* try block: FileNotFoundError first, json.JSONDecodeError next, and every
\* other exception of the model (PermissionError, KeyError, TypeError) is an
\* Exception.
ExceptClauseNoCatchAll(e) ==
    CASE e = "FileNotFoundError" -> "FileNotFoundError"
      [] e = "JSONDecodeError" -> "JSONDecodeError"
      [] OTHER -> "uncaught"
ExceptClause(e) ==
    CASE e = "FileNotFoundError" -> "FileNotFoundError"
      [] e = "JSONDecodeError" -> "JSONDecodeError"
      [] e \in {"PermissionError", "KeyError", "TypeError"} -> "Exception"

\* create_ai_prompt(srt_content): base_prompt, the fixed instruction text
\* (here one symbol standing for its characters), followed by the content.
base_prompt == <<"<base_prompt>">>
PromptOnly(content) == base_prompt
create_ai_prompt(content) == base_prompt \o content

\* ------------------------------------------------------------ SpecLocator

\* The documents the Locator is run on: every document of at most MaxNodes
\* values built from the leaves with lists and with mappings over DocKeys.
MaxNodes == 5

\* Sequences over S of length lo..hi.
SeqsOf(S, lo, hi) == UNION {[1..n -> S] : n \in lo..hi}

OneFragment(n) ==
    List(<<Dict(<<KV("start_time", Num(n)), KV("end_time", Num(n))>>)>>)
Leaves == {None, Num(0), OneFragment(0)}
DocKeys == {Target, "a"}
\* The mappings that bind distinct keys, in every order, to the values of a
\* sequence.
DictsFrom(values) ==
    {Dict([i \in DOMAIN values |-> KV(keys[i], values[i])]) :
        keys \in {ks \in [DOMAIN values -> DocKeys] :
                     \A i, j \in DOMAIN values : i # j => ks[i] # ks[j]}}
\* The lists and the mappings whose children are one of the sequences.
Containers(children) ==
    {List(items) : items \in children}
        \cup UNION {DictsFrom(values) : values \in children}
\* The documents of exactly n values, and the sequences of documents of m
\* values together.
RECURSIVE DocsOfSize(_), SeqsOfSize(_)
DocsOfSize(n) == IF n = 1 THEN Leaves ELSE Containers(SeqsOfSize(n - 1))
SeqsOfSize(m) ==
    IF m = 0 THEN {<<>>}
    ELSE UNION {{<<d>> \o rest : d \in DocsOfSize(k), rest \in SeqsOfSize(m - k)} :
                   k \in 1..m}
Docs(n) == UNION {DocsOfSize(k) : k \in 1..n}

\* The state of main before it runs; the specifications of one function
\* leave it as it is.
Fresh ==
    /\ subtitle_fragments = None /\ idx = 1 /\ subtitles_with_text = <<>>
    /\ srt_content = <<>> /\ exc = "none"
    /\ fileContent = <<>> /\ writes = 0 /\ printed = <<>>
    /\ ret = [count |-> 0, text |-> <<>>] /\ copies = 0 /\ clipboard = <<>>
Idle == inputKind = "ok" /\ data = None /\ Fresh

pipelineVars == <<inputKind, data, subtitle_fragments, idx,
                  subtitles_with_text, srt_content, exc, fileContent,
                  writes, printed, ret, copies, clipboard>>

InitLocator ==
    /\ pc = "call"
    /\ arg \in Docs(MaxNodes)
    /\ result = [res |-> None, visited |-> <<>>]
    /\ Idle

Locate ==
    /\ pc = "call"
    /\ result' = find_subtitle_fragments(arg)
    /\ pc' = "returned"
    /\ UNCHANGED <<arg, pipelineVars>>

NextLocator == Locate

SpecLocator == InitLocator /\ [][NextLocator]_vars

\* Reference traversal of a document: the values bound to Target, and the
\* objects met, in depth-first order (mapping values in insertion order,
\* sequence elements in index order), a mapping that holds Target directly
\* contributing its binding and not being descended into.
RECURSIVE Occurrences(_), OccurrencesIn(_), Preorder(_), PreorderIn(_)
Occurrences(obj) ==
    IF IsDict(obj) THEN
        IF HasKey(obj, Target) THEN <<Get(obj, Target)>> ELSE OccurrencesIn(Values(obj))
    ELSE IF IsList(obj) THEN OccurrencesIn(obj.items)
    ELSE <<>>
OccurrencesIn(seq) ==
    IF seq = <<>> THEN <<>> ELSE Occurrences(Head(seq)) \o OccurrencesIn(Tail(seq))
Preorder(obj) ==
    IF IsDict(obj) THEN
        IF HasKey(obj, Target) THEN <<obj>> ELSE <<obj>> \o PreorderIn(Values(obj))
    ELSE IF IsList(obj) THEN <<obj>> \o PreorderIn(obj.items)
    ELSE <<obj>>
PreorderIn(seq) ==
    IF seq = <<>> THEN <<>> ELSE Preorder(Head(seq)) \o PreorderIn(Tail(seq))

IsPrefix(p, s) == Len(p) <= Len(s) /\ p = SubSeq(s, 1, Len(p))
NotNone(v) == v # None
HoldsMatch(obj) == IsDict(obj) /\ HasKey(obj, Target) /\ Get(obj, Target) # None

\* C1 as stated: whenever Target occurs in the document, whatever is bound to
\* it, the Locator returns the value bound to the first occurrence in
\* depth-first order, having visited nothing after the mapping that holds it,
\* and it returns None (not found) only when Target occurs nowhere.
C1_FirstOccurrenceWhateverValue ==
    pc = "returned" =>
        LET occ == Occurrences(arg) IN
        /\ occ # <<>> =>
              /\ result.res = Head(occ)
              /\ IsPrefix(result.visited, Preorder(arg))
              /\ IsDict(result.visited[Len(result.visited)])
              /\ HasKey(result.visited[Len(result.visited)], Target)
              /\ \A i \in 1..(Len(result.visited) - 1) :
                    ~(IsDict(result.visited[i]) /\ HasKey(result.visited[i], Target))
        /\ result.res = None => occ = <<>>

\* C1 amended: the Locator returns the value bound to the first occurrence, in
\* that depth-first order, whose bound value is not None, and visits nothing
\* after the mapping that holds it; it returns None exactly when no occurrence
\* is bound to a value other than None, after visiting the whole document.
C1_FirstNonNullOccurrence ==
    pc = "returned" =>
        LET occ == SelectSeq(Occurrences(arg), NotNone)
            n == Len(result.visited)
        IN
        /\ IsPrefix(result.visited, Preorder(arg))
        /\ occ # <<>> =>
              /\ result.res = Head(occ)
              /\ HoldsMatch(result.visited[n])
              /\ Get(result.visited[n], Target) = result.res
              /\ \A i \in 1..(n - 1) : ~HoldsMatch(result.visited[i])
        /\ occ = <<>> =>
              /\ result.res = None
              /\ result.visited = Preorder(arg)

\* A run in which the first occurrence is bound to None and a later one, in a
\* nested mapping, to a value, which is returned.
C1_Witness ==
    /\ pc = "returned"
    /\ Len(Occurrences(arg)) >= 2
    /\ Head(Occurrences(arg)) = None
    /\ Occurrences(arg)[2] # None
    /\ result.res = Occurrences(arg)[2]
    /\ HoldsMatch(result.visited[Len(result.visited)])

\* ------------------------------------------------------------ SpecExtractor

MaxSentences == 3

TextA == Dict(<<KV("text", Str(<<"a">>))>>)
TextB == Dict(<<KV("text", Str(<<"b">>))>>)
NoText == Dict(<<KV("other", Str(<<"a">>))>>)
TextNotStr == Dict(<<KV("text", Num(5))>>)
SentenceKinds == {TextA, TextB, NoText, TextNotStr, Num(5), None, Str(<<"a">>)}
SentenceLists == {List(items) : items \in SeqsOf(SentenceKinds, 0, MaxSentences)}
CacheValues ==
    {Dict(<<KV("sentence_list", sl)>>) : sl \in SentenceLists \cup {None, Num(5)}}
        \cup {Dict(<<KV("other", Num(1))>>), List(<<TextA>>), Num(5), None}
CacheInfos ==
    {JsonStr(v) : v \in CacheValues}
        \cup {Str(<<>>), Str(<<"a">>), None, Num(5), List(<<TextA>>)}

InitExtractor ==
    /\ pc = "call"
    /\ arg \in CacheInfos
    /\ result = Ok(<<>>)
    /\ Idle

Extract ==
    /\ pc = "call"
    /\ result' = extract_subtitle_text(arg)
    /\ pc' = "returned"
    /\ UNCHANGED <<arg, pipelineVars>>

NextExtractor == Extract

SpecExtractor == InitExtractor /\ [][NextExtractor]_vars

\* The cache string decodes to a mapping with a non-empty sentence_list.
HasSentenceList(cache) ==
    /\ cache.t = "jstr"
    /\ IsDict(cache.v)
    /\ HasKey(cache.v, "sentence_list")
    /\ IsList(Get(cache.v, "sentence_list"))
    /\ Get(cache.v, "sentence_list").items # <<>>
SentencesOf(cache) == Get(cache.v, "sentence_list").items
HasText(e) == IsDict(e) /\ HasKey(e, "text")
HasStrText(e) == HasText(e) /\ Get(e, "text").t = "str"
RECURSIVE SpaceJoined(_)
SpaceJoined(texts) ==
    IF texts = <<>> THEN <<>>
    ELSE IF Len(texts) = 1 THEN texts[1]
    ELSE texts[1] \o <<" ">> \o SpaceJoined(Tail(texts))
\* The text attributes of the elements that have one, in list order.
TextsOf(items) ==
    LET having == SelectSeq(items, HasStrText) IN
    [i \in DOMAIN having |-> Get(having[i], "text").s]
\* An element on which the membership test "text" in sentence raises.
Unsearchable(e) == e.t \in {"num", "null"}

MaxMillis == 1200
TimeInputs ==
    {ms * 1000 + us : ms \in 0..MaxMillis, us \in {0, 1, 999}}
        \cup {59999999, 60000000, 61001000, 2147483647}

InitTime ==
    /\ pc = "call"
    /\ arg \in TimeInputs
    /\ result = <<>>
    /\ Idle

Normalize ==
    /\ pc = "call"
    /\ result' = parse_time_microseconds(arg)
    /\ pc' = "returned"
    /\ UNCHANGED <<arg, pipelineVars>>

NextTime == Normalize

SpecTime == InitTime /\ [][NextTime]_vars

\* Reading a rendered time back: the positions of ":" and ",", the number a
\* run of digits stands for.
DigitValue(c) == CHOOSE d \in 0..9 : DigitChars[d + 1] = c
IsDigits(cs) == cs # <<>> /\ \A i \in DOMAIN cs : \E d \in 0..9 : DigitChars[d + 1] = cs[i]
RECURSIVE NumberOf(_)
NumberOf(cs) ==
    IF cs = <<>> THEN 0 ELSE 10 * NumberOf(SubSeq(cs, 1, Len(cs) - 1)) + DigitValue(cs[Len(cs)])
\* The four fields of HH:MM:SS,mmm, the hours being all that precedes.
HoursField(cs) == SubSeq(cs, 1, Len(cs) - 10)
MinutesField(cs) == SubSeq(cs, Len(cs) - 8, Len(cs) - 7)
SecondsField(cs) == SubSeq(cs, Len(cs) - 5, Len(cs) - 4)
MillisField(cs) == SubSeq(cs, Len(cs) - 2, Len(cs))
WellShaped(cs) ==
    /\ Len(cs) >= 12
    /\ cs[Len(cs) - 9] = ":" /\ cs[Len(cs) - 6] = ":" /\ cs[Len(cs) - 3] = ","
    /\ IsDigits(HoursField(cs)) /\ IsDigits(MinutesField(cs))
    /\ IsDigits(SecondsField(cs)) /\ IsDigits(MillisField(cs))
    /\ NumberOf(MinutesField(cs)) <= 59 /\ NumberOf(SecondsField(cs)) <= 59
Decoded(cs) ==
    ((NumberOf(HoursField(cs)) * 60 + NumberOf(MinutesField(cs))) * 60
        + NumberOf(SecondsField(cs))) * 1000 + NumberOf(MillisField(cs))

\* C7: for every int t >= 0 the rendered time has the shape HH:MM:SS,mmm and
\* decodes to floor(t / 1000): the milliseconds are truncated, never rounded.
C7_DecodesToTruncatedMillis ==
    pc = "returned" => (WellShaped(result) /\ Decoded(result) = arg \div 1000)

\* ------------------------------------------------------------ Spec: main

MaxFragments == 3

\* A printed message: what it says, and the text it carries.
Msg(m) == [msg |-> m, text |-> <<>>]
MsgWith(m, text) == [msg |-> m, text |-> text]

CacheOf(chars) ==
    JsonStr(Dict(<<KV("sentence_list", List(<<Dict(<<KV("text", Str(chars))>>)>>))>>))
Fragment(start, end, cache) ==
    Dict(<<KV("start_time", start), KV("end_time", end), KV("subtitle_cache_info", cache)>>)
EndTime == Num(3250000)
ValidFragments ==
    {Fragment(Num(st), EndTime, CacheOf(<<x>>)) : st \in {0, 1500000}, x \in {"a", "b"}}
EmptyCache == Fragment(Num(0), EndTime, Str(<<>>))
NoCache == Dict(<<>>)
GarbageCache == Fragment(Num(0), EndTime, Str(<<"a">>))
WhitespaceText == Fragment(Num(0), EndTime, CacheOf(<<" ">>))
NoSentenceList == Fragment(Num(0), EndTime, JsonStr(Dict(<<KV("other", Num(1))>>)))
NoStartTime ==
    Dict(<<KV("end_time", EndTime), KV("subtitle_cache_info", CacheOf(<<"a">>))>>)
NoEndTime ==
    Dict(<<KV("start_time", Num(0)), KV("subtitle_cache_info", CacheOf(<<"a">>))>>)
NullStartTime == Fragment(None, EndTime, CacheOf(<<"a">>))
FragmentKinds ==
    ValidFragments
        \cup {EmptyCache, NoCache, GarbageCache, WhitespaceText, NoSentenceList}
        \cup {NoStartTime, NoEndTime, NullStartTime, None}
FragmentLists == {List(items) : items \in SeqsOf(FragmentKinds, 0, MaxFragments)}
\* The documents: the key at the top, bound to a list of fragments, to None or
\* to a number; the key nested in a mapping and a sequence, bound to a list of
\* one fragment; or no key.
Documents ==
    {Dict(<<KV(Target, v)>>) : v \in FragmentLists \cup {None, Num(5)}}
        \cup {Dict(<<KV("a", List(<<Num(1), Dict(<<KV(Target, List(<<f>>))>>)>>))>>) :
                 f \in FragmentKinds}
        \cup {Dict(<<KV("a", Num(1))>>)}

Init ==
    /\ pc = "main"
    /\ arg = None
    /\ result = None
    /\ inputKind \in {"missing", "unreadable", "malformed", "ok"}
    /\ data \in (IF inputKind = "ok" THEN Documents ELSE {None})
    /\ Fresh

\* return 0, "" after printing a message
ReturnNothing(m) ==
    /\ printed' = Append(printed, Msg(m))
    /\ ret' = [count |-> 0, text |-> <<>>]
    /\ pc' = "returned"

\* main, lines 176-192: the call of convert_draft_info_to_srt
CallConvert ==
    /\ pc = "main"
    /\ printed' = Append(printed, Msg("converting"))
    /\ pc' = "open"
    /\ UNCHANGED <<arg, result, inputKind, data, subtitle_fragments, idx,
                   subtitles_with_text, srt_content, exc, fileContent, writes,
                   ret, copies, clipboard>>

\* lines 99-100: open(input_file) and json.load(f)
ReadInput ==
    /\ pc = "open"
    /\ exc' = CASE inputKind = "missing" -> "FileNotFoundError"
                [] inputKind = "unreadable" -> "PermissionError"
                [] inputKind = "malformed" -> "JSONDecodeError"
                [] inputKind = "ok" -> "none"
    /\ pc' = IF inputKind = "ok" THEN "find" ELSE "except"
    /\ UNCHANGED <<arg, result, inputKind, data, subtitle_fragments, idx,
                   subtitles_with_text, srt_content, fileContent, writes,
                   printed, ret, copies, clipboard>>

\* lines 103-128: the search, and the return when nothing usable is found
Find ==
    /\ pc = "find"
    /\ subtitle_fragments' = find_subtitle_fragments(data).res
    /\ IF ~Truthy(subtitle_fragments')
       THEN /\ ReturnNothing("not_found")
            /\ UNCHANGED <<idx, subtitles_with_text>>
       ELSE /\ pc' = "filter"
            /\ idx' = 1
            /\ subtitles_with_text' = <<>>
            /\ UNCHANGED <<printed, ret>>
    /\ UNCHANGED <<arg, result, inputKind, data, srt_content, exc, fileContent,
                   writes, copies, clipboard>>

\* lines 129-137: one iteration of the for loop over subtitle_fragments
Filter ==
    /\ pc = "filter"
    /\ LET items == Iterate(subtitle_fragments) IN
       IF items.exc # "none"
       THEN /\ exc' = items.exc
            /\ pc' = "except"
            /\ UNCHANGED <<idx, subtitles_with_text>>
       ELSE /\ idx <= Len(items.val)
            /\ LET step == FilterFragment(items.val[idx]) IN
               IF step.exc # "none"
               THEN /\ exc' = step.exc
                    /\ pc' = "except"
                    /\ UNCHANGED <<idx, subtitles_with_text>>
               ELSE /\ subtitles_with_text' = subtitles_with_text \o step.val
                    /\ idx' = idx + 1
                    /\ UNCHANGED <<pc, exc>>
    /\ UNCHANGED <<arg, result, inputKind, data, subtitle_fragments, srt_content,
                   fileContent, writes, printed, ret, copies, clipboard>>

\* line 140, once the for loop is over
SortSubtitles ==
    /\ pc = "filter"
    /\ Iterate(subtitle_fragments).exc = "none"
    /\ idx > Len(Iterate(subtitle_fragments).val)
    /\ LET sorted == Sort(subtitles_with_text) IN
       IF sorted.exc # "none"
       THEN /\ exc' = sorted.exc
            /\ pc' = "except"
            /\ UNCHANGED subtitles_with_text
       ELSE /\ subtitles_with_text' = sorted.val
            /\ pc' = "serialize"
            /\ UNCHANGED exc
    /\ UNCHANGED <<arg, result, inputKind, data, subtitle_fragments, idx,
                   srt_content, fileContent, writes, printed, ret, copies,
                   clipboard>>

\* lines 143-151
SerializeSubtitles ==
    /\ pc = "serialize"
    /\ LET content == Serialize(subtitles_with_text) IN
       IF content.exc # "none"
       THEN /\ exc' = content.exc
            /\ pc' = "except"
            /\ UNCHANGED srt_content
       ELSE /\ srt_content' = content.val
            /\ pc' = "write"
            /\ UNCHANGED exc
    /\ UNCHANGED <<arg, result, inputKind, data, subtitle_fragments, idx,
                   subtitles_with_text, fileContent, writes, printed, ret,
                   copies, clipboard>>

\* lines 154-160: the output file is written, and the count and the text returned
WriteOutput ==
    /\ pc = "write"
    /\ fileContent' = srt_content
    /\ writes' = writes + 1
    /\ printed' = printed \o <<Msg("created"), Msg("count")>>
    /\ ret' = [count |-> Len(subtitles_with_text), text |-> srt_content]
    /\ pc' = "returned"
    /\ UNCHANGED <<arg, result, inputKind, data, subtitle_fragments, idx,
                   subtitles_with_text, srt_content, exc, copies, clipboard>>

handlerFrame == <<arg, result, inputKind, data, subtitle_fragments, idx,
                  subtitles_with_text, srt_content, exc, fileContent, writes,
                  copies, clipboard>>

\* lines 162-164
ExceptFileNotFound ==
    /\ pc = "except"
    /\ ExceptClause(exc) = "FileNotFoundError"
    /\ ReturnNothing("file_not_found")
    /\ UNCHANGED handlerFrame

\* lines 165-167
ExceptJSONDecodeError ==
    /\ pc = "except"
    /\ ExceptClause(exc) = "JSONDecodeError"
    /\ ReturnNothing("json_error")
    /\ UNCHANGED handlerFrame

\* lines 168-170
ExceptException ==
    /\ pc = "except"
    /\ ExceptClause(exc) = "Exception"
    /\ ReturnNothing("error")
    /\ UNCHANGED handlerFrame

\* The test of line 194
SucceededAlways(count) == count >= 0
Succeeded(count) == count > 0

\* main, lines 194-197 and 211-212: the report
Report ==
    /\ pc = "returned"
    /\ IF Succeeded(ret.count)
       THEN /\ printed' = printed \o <<Msg("success"), Msg("saved"), Msg("folder")>>
            /\ pc' = "copy"
       ELSE /\ printed' = Append(printed, Msg("failed"))
            /\ pc' = "done"
    /\ UNCHANGED <<arg, result, inputKind, data, subtitle_fragments, idx,
                   subtitles_with_text, srt_content, exc, fileContent, writes,
                   ret, copies, clipboard>>

\* main, lines 200-210: pyperclip.copy(ai_prompt) succeeds, or raises and the
\* prompt is printed
CopyPrompt ==
    /\ pc = "copy"
    /\ copies' = copies + 1
    /\ LET ai_prompt == create_ai_prompt(ret.text) IN
       \/ /\ clipboard' = ai_prompt
          /\ printed' = printed \o <<Msg("copied"), Msg("paste_it")>>
       \/ /\ clipboard' = clipboard
          /\ printed' = printed \o <<Msg("copy_error"), Msg("prompt_is"),
                                     Msg("rule"), MsgWith("prompt", ai_prompt), Msg("rule")>>
    /\ pc' = "done"
    /\ UNCHANGED <<arg, result, inputKind, data, subtitle_fragments, idx,
                   subtitles_with_text, srt_content, exc, fileContent, writes,
                   ret>>

Next ==
    \/ CallConvert
    \/ ReadInput
    \/ Find
    \/ Filter
    \/ SortSubtitles
    \/ SerializeSubtitles
    \/ WriteOutput
    \/ ExceptFileNotFound
    \/ ExceptJSONDecodeError
    \/ ExceptException
    \/ Report
    \/ CopyPrompt

Spec == Init /\ [][Next]_vars

\* ------------------------------------------------------------ the claims about a run

Returned == pc \in {"returned", "copy", "done"}

\* The document was read and the Locator found a non-empty list in it.
Located ==
    /\ inputKind = "ok"
    /\ IsList(find_subtitle_fragments(data).res)
    /\ find_subtitle_fragments(data).res.items # <<>>
Fragments == find_subtitle_fragments(data).res.items

\* The fragment is a mapping whose cache decodes to a text that is not empty
\* after trimming.
HasCaptionText(f) ==
    /\ IsDict(f)
    /\ HasKey(f, "subtitle_cache_info")
    /\ Truthy(Get(f, "subtitle_cache_info"))
    /\ Strip(extract_subtitle_text(Get(f, "subtitle_cache_info")).val) # <<>>
\* ... and it carries both times, as numbers.
IsNumberAt(f, key) == HasKey(f, key) /\ Get(f, key).t = "num"
Usable(f) == HasCaptionText(f) /\ IsNumberAt(f, "start_time") /\ IsNumberAt(f, "end_time")
\* The fragment is a mapping whose cache is missing, empty or invalid.
Excluded(f) == IsDict(f) /\ ~HasCaptionText(f)
NotExcluded(f) == ~Excluded(f)

\* What lines 123-151 make of a list of fragments: the for loop of lines
\* 129-137 over all of them, the sort, the rendering; <<>> when the list is
\* empty or an exception is raised on the way.
RECURSIVE FilterAll(_)
FilterAll(items) ==
    IF items = <<>> THEN Ok(<<>>)
    ELSE LET step == FilterFragment(Head(items)) IN
         IF step.exc # "none" THEN step
         ELSE LET rest == FilterAll(Tail(items)) IN
              IF rest.exc # "none" THEN rest ELSE Ok(step.val \o rest.val)
RenderedFor(items) ==
    IF items = <<>> THEN <<>>
    ELSE LET subs == FilterAll(items) IN
         IF subs.exc # "none" THEN <<>>
         ELSE LET sorted == Sort(subs.val) IN
              IF sorted.exc # "none" THEN <<>>
              ELSE LET content == Serialize(sorted.val) IN
                   IF content.exc # "none" THEN <<>> ELSE content.val

\* The lines of a text, each ended by a line break.
RECURSIVE Lines(_), FirstLine(_)
FirstLine(cs) == IF cs = <<>> \/ Head(cs) = "\n" THEN <<>> ELSE <<Head(cs)>> \o FirstLine(Tail(cs))
Lines(cs) ==
    IF cs = <<>> THEN <<>>
    ELSE LET first == FirstLine(cs) IN
         <<first>> \o Lines(SubSeq(cs, Len(first) + 2, Len(cs)))

Said(m) == \E i \in DOMAIN printed : printed[i].msg = m
Diagnosed == Said("not_found") \/ Said("file_not_found") \/ Said("json_error") \/ Said("error")

\* C2: whenever the fragment list is located, the count returned (and the
\* number of blocks of the text) is the number of fragments whose decoded text
\* is not empty after trimming, whatever their start_time and end_time.
C2_CountIsFragmentsWithText ==
    (Returned /\ Located) =>
        /\ ret.count = Cardinality({i \in DOMAIN Fragments : HasCaptionText(Fragments[i])})
        /\ Len(Lines(ret.text)) = 4 * ret.count

\* C3: once the list is located, an anomaly inside one fragment (no
\* start_time, no end_time, not a mapping) only excludes that fragment: the run
\* goes on to write the output, which holds every fragment that has a text and
\* its times.
C3_FragmentAnomalyOnlyExcludes ==
    (Returned /\ Located) =>
        /\ writes = 1
        /\ ~Said("error")
        /\ ret.count = Cardinality({i \in DOMAIN Fragments : Usable(Fragments[i])})
        /\ ret.text = RenderedFor(SelectSeq(Fragments, Usable))

\* C4: the fragments whose cache is missing, empty or invalid are left out
\* without a message, and the text is the one the list without them yields;
\* a list of such fragments and usable ones alone is written, with one block
\* per usable fragment.
C4_ExcludedFragmentsLeaveNoTrace ==
    (Returned /\ Located) =>
        /\ ret.text = RenderedFor(SelectSeq(Fragments, NotExcluded))
        /\ (\A i \in DOMAIN Fragments : Excluded(Fragments[i]) \/ Usable(Fragments[i])) =>
              /\ writes = 1
              /\ printed = <<Msg("converting"), Msg("created"), Msg("count")>>
                              \o SubSeq(printed, 4, Len(printed))
              /\ ~Diagnosed
              /\ ret.count = Cardinality({i \in DOMAIN Fragments : Usable(Fragments[i])})
              /\ Len(Lines(ret.text)) = 4 * ret.count

\* One valid and one empty-cache fragment gave exactly one block, indexed 1.
C4_Witness ==
    /\ Returned /\ Located
    /\ Fragments = <<Fragment(Num(0), EndTime, CacheOf(<<"a">>)), EmptyCache>>
    /\ ret.count = 1
    /\ Lines(ret.text) =
          << <<"1">>,
             <<"0", "0", ":", "0", "0", ":", "0", "0", ",", "0", "0", "0",
               " ", "-", "-", ">", " ",
               "0", "0", ":", "0", "0", ":", "0", "3", ",", "2", "5", "0">>,
             <<"a">>,
             <<>> >>

\* C5: in the rendered subtitles the start_time never decreases from one
\* block to the next, and the subtitles of one start_time are in the order
\* their fragments have in the located list.
C5_SortedAndStable ==
    writes = 1 =>
        /\ \A i \in 1..(Len(subtitles_with_text) - 1) :
              subtitles_with_text[i].start_time.n <= subtitles_with_text[i + 1].start_time.n
        /\ \A st \in {subtitles_with_text[i].start_time : i \in DOMAIN subtitles_with_text} :
              SelectSeq(subtitles_with_text, LAMBDA c : c.start_time = st)
                  = SelectSeq(FilterAll(Fragments).val, LAMBDA c : c.start_time = st)
        /\ srt_content = Serialize(subtitles_with_text).val

\* The sort moved a subtitle, and two subtitles of one start_time and
\* different texts were rendered.
C5_Witness ==
    /\ writes = 1
    /\ subtitles_with_text # FilterAll(Fragments).val
    /\ \E i \in 1..(Len(subtitles_with_text) - 1) :
          /\ subtitles_with_text[i].start_time = subtitles_with_text[i + 1].start_time
          /\ subtitles_with_text[i].text # subtitles_with_text[i + 1].text

\* C6: for N subtitles the text is N blocks in sorted order, the k-th being
\* the line k, the line "<start> --> <end>" of the Time Normalizer's outputs,
\* the text line and an empty line; the count returned is N, the text returned
\* is the text written, and it is empty when N is 0.
C6_BlocksOfFourLines ==
    writes = 1 =>
        LET N == Len(subtitles_with_text)
            lines == Lines(ret.text)
        IN
        /\ Returned
        /\ Len(lines) = 4 * N
        /\ \A k \in 1..N :
              /\ lines[4 * k - 3] = Decimal(k)
              /\ lines[4 * k - 2] =
                    parse_time_microseconds(subtitles_with_text[k].start_time.n)
                        \o <<" ", "-", "-", ">", " ">>
                        \o parse_time_microseconds(subtitles_with_text[k].end_time.n)
              /\ lines[4 * k - 1] = subtitles_with_text[k].text
              /\ lines[4 * k] = <<>>
        /\ ret.text # <<>> => ret.text[Len(ret.text)] = "\n"
        /\ ret.count = N
        /\ ret.text = fileContent
        /\ N = 0 => ret.text = <<>>

\* Three subtitles were rendered and written.
C6_Witness ==
    /\ writes = 1
    /\ Len(subtitles_with_text) = 3
    /\ Len(Lines(fileContent)) = 12

\* C8: nothing is raised to the caller; a run that returns without having
\* written returns count 0 and the empty text after a diagnostic, the output
\* file unwritten; the file is written at most once, after every fragment was
\* extracted and the subtitles sorted and serialized.
C8_FailuresReturnNothing ==
    /\ pc = "except" => ExceptClause(exc) \in {"FileNotFoundError", "JSONDecodeError", "Exception"}
    /\ (Returned /\ writes = 0) =>
          /\ ret = [count |-> 0, text |-> <<>>]
          /\ Diagnosed
          /\ fileContent = <<>>
    /\ (Returned /\ ~Located) => writes = 0
    /\ writes <= 1
    /\ writes = 1 =>
          /\ Returned /\ Located /\ exc = "none"
          /\ idx = Len(Fragments) + 1
          /\ Ok(subtitles_with_text) = Sort(FilterAll(Fragments).val)
          /\ Ok(fileContent) = Serialize(subtitles_with_text)

\* A fault raised while extracting (a fragment without start_time) was caught
\* and the run returned nothing.
C8_Witness ==
    /\ Returned
    /\ exc = "KeyError"
    /\ writes = 0
    /\ Said("error")
    /\ ret = [count |-> 0, text |-> <<>>]

\* C9: the clipboard is tried only after convert_draft_info_to_srt returned a
\* count above 0, the output file written; what is delivered is the template
\* followed by the rendered text; a failed delivery leaves the written output
\* and the reported success as they are and prints the same text; with count 0
\* nothing is delivered and the run is reported as failed.
C9_ClipboardAfterSuccess ==
    /\ copies <= 1
    /\ (pc = "copy" \/ copies = 1) =>
          /\ ret.count > 0
          /\ writes = 1
          /\ fileContent = ret.text
          /\ Said("success")
    /\ (copies = 1 /\ Said("copied")) =>
          /\ clipboard = base_prompt \o ret.text
          /\ SubSeq(clipboard, Len(base_prompt) + 1, Len(clipboard)) = fileContent
    /\ (copies = 1 /\ ~Said("copied")) =>
          /\ clipboard = <<>>
          /\ Said("copy_error")
          /\ \E i \in DOMAIN printed :
                printed[i] = MsgWith("prompt", base_prompt \o fileContent)
    /\ (pc = "done" /\ ret.count = 0) =>
          /\ copies = 0
          /\ clipboard = <<>>
          /\ printed[Len(printed)] = Msg("failed")
          /\ ~Said("success")
    /\ pc = "done" => (Said("success") <=> ~Said("failed"))

\* The delivery failed after a successful conversion, and the prompt was printed.
C9_Witness ==
    /\ pc = "done"
    /\ copies = 1
    /\ Said("copy_error")
    /\ writes = 1
    /\ fileContent # <<>>
    /\ printed[Len(printed) - 1] = MsgWith("prompt", base_prompt \o fileContent)

====
